---- MODULE Spec2Model ----
(***************************************************************************)
(* Model of the request orchestration workflow of the Wolfram Alpha        *)
(* chatbot backend: WolframAlphaLangGraphAgent (langgraph_agent.py) and    *)
(* the chat endpoint that serves it (main.py).                             *)
(*                                                                         *)
(* One agent instance is shared by all requests (main.py: the global       *)
(* `agent`).  Every request is one call of chat_endpoint, which calls      *)
(* agent.chat and then reads agent.last_used_wolfram.  The steps of        *)
(* different requests interleave.                                          *)
(*                                                                         *)
(* Python text is modelled in two forms.  Text on which the code works     *)
(* character by character (strip, upper, the truth test of plaintext) is a *)
(* sequence of pieces; text that is only compared, stored and concatenated *)
(* is a TLA+ string.  Str turns the first into the second.  A piece is one *)
(* character, or a run of characters that neither begins nor ends with     *)
(* whitespace and that no case mapping is applied to.                      *)
(* Optional[X] is a sequence of length at most one: None == << >>.         *)
(***************************************************************************)
EXTENDS Integers, Sequences, FiniteSets, TLC

\* Number of chat requests served by the one agent.
NReq == 2

Requests == 1 .. NReq

None == << >>
Some(x) == << x >>
IsSome(o) == o # None
Get(o) == o[1]

----------------------------------------------------------------------------
(* Text *)

Whitespace == {" ", "\n", "\t"}

\* str.upper on one character of the modelled alphabet
UpperChar(c) ==
  CASE c = "y" -> "Y"
    [] c = "e" -> "E"
    [] c = "s" -> "S"
    [] c = "n" -> "N"
    [] c = "o" -> "O"
    [] OTHER -> c

\* str.upper
Upper(cs) == [i \in 1 .. Len(cs) |-> UpperChar(cs[i])]

RECURSIVE LStrip(_)
LStrip(cs) ==
  IF cs # << >> /\ Head(cs) \in Whitespace THEN LStrip(Tail(cs)) ELSE cs

RECURSIVE RStrip(_)
RStrip(cs) ==
  IF cs # << >> /\ cs[Len(cs)] \in Whitespace
  THEN RStrip(SubSeq(cs, 1, Len(cs) - 1))
  ELSE cs

\* str.strip
Strip(cs) == RStrip(LStrip(cs))

\* the Python string with these characters
RECURSIVE Str(_)
Str(cs) == IF cs = << >> THEN "" ELSE Head(cs) \o Str(Tail(cs))

\* '\n'.join(lines)
RECURSIVE JoinLines(_)
JoinLines(lines) ==
  IF lines = << >> THEN ""
  ELSE IF Len(lines) = 1 THEN lines[1]
  ELSE lines[1] \o "\n" \o JoinLines(Tail(lines))

----------------------------------------------------------------------------
(* Data *)

\* ToolResult(success, result, error=None, source=None)
ToolResult(success, result, error, source) ==
  [success |-> success, result |-> result, error |-> error, source |-> source]

\* a langchain message; id 0 is "no id yet"
Message(type, content) == [type |-> type, content |-> content, id |-> 0]
HumanMessage(content) == Message("human", content)
SystemMessage(content) == Message("system", content)
AIMessage(content) == Message("ai", content)

MaxId(msgs) ==
  IF msgs = << >> THEN 0
  ELSE CHOOSE n \in {msgs[i].id : i \in 1 .. Len(msgs)} :
         \A j \in 1 .. Len(msgs) : msgs[j].id <= n

\* ids for the messages that have none, each one fresh (a uuid in the code)
RECURSIVE AssignIds(_, _)
AssignIds(msgs, used) ==
  IF msgs = << >> THEN << >>
  ELSE IF Head(msgs).id = 0
       THEN << [Head(msgs) EXCEPT !.id = used + 1] >> \o AssignIds(Tail(msgs), used + 1)
       ELSE << Head(msgs) >> \o AssignIds(Tail(msgs), used)

\* merge one message into the list: same id replaces in place, a new id appends
MergeOne(merged, m) ==
  IF \E i \in 1 .. Len(merged) : merged[i].id = m.id
  THEN [i \in 1 .. Len(merged) |-> IF merged[i].id = m.id THEN m ELSE merged[i]]
  ELSE Append(merged, m)

RECURSIVE MergeAll(_, _)
MergeAll(merged, right) ==
  IF right = << >> THEN merged
  ELSE MergeAll(MergeOne(merged, Head(right)), Tail(right))

\* the reducer of the messages channel: messages: Annotated[List, add_messages]
add_messages(left, right) ==
  LET l == AssignIds(left, MaxId(left \o right))
      r == AssignIds(right, MaxId(l \o right))
  IN MergeAll(l, r)

----------------------------------------------------------------------------
(* Exceptions *)

\* an exception in flight: its class and str(e)
Exc(type, msg) == [type |-> type, msg |-> msg]

\* the classes requests.get and raise_for_status raise: ConnectionError,
\* HTTPError and Timeout derive from RequestException
RequestExceptions == { "RequestException", "ConnectionError", "HTTPError", "Timeout" }

\* does "except <clause> as e" catch e?  Every class raised here derives from
\* Exception; RequestException is the one more specific clause in the code.
Catches(clause, e) ==
  \/ clause = "Exception"
  \/ clause = e.type
  \/ clause = "RequestException" /\ e.type \in RequestExceptions

----------------------------------------------------------------------------
(* What the outside world answers *)

\* the message a request carries (requests differ, so that state of one
\* request showing up in another is visible)
UserMessage(r) ==
  IF r % 2 = 1 THEN "What is the integral of x^2 + 3x?"
  ELSE "Tell me a joke about mathematics"

LlmOk(content) == [ok |-> TRUE, content |-> content, exc |-> Exc("", "")]
LlmFail(msg) == [ok |-> FALSE, content |-> << >>, exc |-> Exc("APIError", msg)]

YES == << "Y", "E", "S" >>

\* replies of the classifier model in the workflow specification
ClassifierOutcomes ==
  { LlmOk(YES), LlmOk(<< "N", "O" >>), LlmFail("Connection error.") }

\* replies of the classifier model for the study of the decision alone
ClassifierReplies ==
  { YES, << "y", "e", "s" >>, << "Y", "e", "s" >>, << "y", "E", "S" >>,
    << " ", "Y", "E", "S" >>, << "Y", "E", "S", "\n" >>,
    << "\t", "y", "e", "s", " ", "\n" >>,
    << "N", "O" >>, << "n", "o" >>, << >>, << " " >>,
    << "Y", "E", "S", " ", "N", "O" >>, << "Y", "E", "S", "." >>,
    << "N", "O", " ", "Y", "E", "S" >>, << "Y", " ", "E", "S" >>,
    << "Y", "E" >>, << "Y", "E", "S", "S" >> }

ClassifierOutcomesWide ==
  { LlmOk(c) : c \in ClassifierReplies } \cup { LlmFail("Connection error.") }

\* replies of the query formulator model
FormulatorOutcomes ==
  { LlmOk(<< " ", "integral of x^2 + 3x", "\n" >>), LlmFail("Rate limit reached") }

\* replies of the synthesis model (its content is used as it is)
SynthesisOutcomes ==
  { [ok |-> TRUE, content |-> "Here is the answer.", exc |-> Exc("", "")],
    [ok |-> FALSE, content |-> "", exc |-> Exc("APIError", "Request timed out.")] }

----------------------------------------------------------------------------
(* The lookup API's answer *)

\* {queryresult: {success, pods: [{title, subpods: [{plaintext}]}]}}; a key
\* that is missing is None
Subpod(plaintext) == [plaintext |-> plaintext]
Pod(title, subpods) == [title |-> title, subpods |-> subpods]
QueryResult(success, pods) == [success |-> success, pods |-> pods]
\* is_object: the JSON document is an object (a dict), not a list or a scalar
Data(is_object, queryresult) == [is_object |-> is_object, queryresult |-> queryresult]

NoData == Data(TRUE, None)

\* what requests.get, raise_for_status and response.json() do: raise, or
\* hand the parsed document over
HttpRaises(type, msg) == [exc |-> Some(Exc(type, msg)), data |-> NoData]
HttpJson(data) == [exc |-> None, data |-> data]

IntegralPlaintext == << "x^3/3 + 3x^2/2 + constant" >>

HttpOutcomes ==
  { HttpRaises("RequestException", "Connection refused"),
    HttpRaises("RequestException", "500 Server Error"),
    HttpRaises("ValueError", "Expecting value: line 1 column 1 (char 0)"),
    HttpJson(Data(TRUE, Some(QueryResult(Some(FALSE), None)))),
    HttpJson(Data(TRUE, Some(QueryResult(Some(TRUE),
      Some(<< Pod(Some("Input"), Some(<< Subpod(Some(<< " " >>)) >>)) >>))))),
    HttpJson(Data(FALSE, None)),
    HttpJson(Data(TRUE, Some(QueryResult(Some(TRUE),
      Some(<< Pod(Some("Indefinite integral"),
                  Some(<< Subpod(Some(IntegralPlaintext)) >>)) >>))))) }

\* answers of every shape the parsing code distinguishes
InputPod == Pod(Some("Input"), Some(<< Subpod(Some(<< "integrate x^2 + 3x" >>)) >>))
IntegralPod ==
  Pod(Some("Indefinite integral"),
      Some(<< Subpod(Some(<< >>)),
              Subpod(Some(IntegralPlaintext)),
              Subpod(None),
              Subpod(Some(<< " ", "x^3/3 + (3 x^2)/2", "\n" >>)) >>))
PlotPod == Pod(None, Some(<< Subpod(Some(<< "plot" >>)) >>))
BlankPod == Pod(Some("Plots"), Some(<< Subpod(Some(<< "\t", " " >>)), Subpod(Some(<< >>)) >>))

Answer(success, pods) == HttpJson(Data(TRUE, Some(QueryResult(success, pods))))

\* the answer to "integral of x^2 + 3x"
ScenarioA ==
  Answer(Some(TRUE), Some(<< Pod(Some("Indefinite integral"),
                                 Some(<< Subpod(Some(IntegralPlaintext)) >>)) >>))

HttpOutcomesWide ==
  HttpOutcomes \cup
  { HttpRaises("ConnectionError", "Connection aborted."),
    HttpRaises("HTTPError", "403 Client Error: Forbidden"),
    HttpRaises("Timeout", "Read timed out. (read timeout=30)"),
    HttpJson(NoData),
    Answer(None, None),
    Answer(None, Some(<< InputPod >>)),
    Answer(Some(FALSE), Some(<< InputPod, IntegralPod >>)),
    Answer(Some(TRUE), None),
    Answer(Some(TRUE), Some(<< >>)),
    Answer(Some(TRUE), Some(<< Pod(Some("Input"), None) >>)),
    Answer(Some(TRUE), Some(<< Pod(Some("Input"), Some(<< >>)), BlankPod >>)),
    Answer(Some(TRUE), Some(<< Pod(Some("Input"), Some(<< Subpod(None) >>)) >>)),
    Answer(Some(TRUE), Some(<< InputPod, IntegralPod >>)),
    Answer(Some(TRUE), Some(<< BlankPod, IntegralPod, PlotPod, InputPod >>)) }

----------------------------------------------------------------------------
(* _execute_wolfram_query *)

\* what a block of code ends with: a value it returns or an exception it raises
Return(v) == [raised |-> None, value |-> Some(v)]
Raise(e) == [raised |-> Some(e), value |-> None]

SOURCE == "wolfram_alpha"

\* a slip: a failure that keeps a result text
FailureWithResult(error) == ToolResult(FALSE, Some(error), Some(error), Some(SOURCE))

Failure(error) == ToolResult(FALSE, None, Some(error), Some(SOURCE))
Success(text) == ToolResult(TRUE, Some(text), None, Some(SOURCE))

\* dict.get(key, default) on a key that may be missing
GetOr(opt, default) == IF IsSome(opt) THEN Get(opt) ELSE default

\* a slip: the plaintext is not trimmed before the test
ReadableUntrimmed(plaintext) == plaintext # << >>

\* "if plaintext and plaintext.strip()"
Readable(plaintext) == plaintext # << >> /\ Strip(plaintext) # << >>

\* the inner loop: the lines of one pod
RECURSIVE SubpodLines(_, _)
SubpodLines(title, subpods) ==
  IF subpods = << >> THEN << >>
  ELSE LET plaintext == GetOr(Head(subpods).plaintext, << >>)
       IN (IF Readable(plaintext)
           THEN << title \o ": " \o Str(plaintext) >>
           ELSE << >>) \o SubpodLines(title, Tail(subpods))

\* a slip: the pods are read last to first
RECURSIVE PodLinesReversed(_)
PodLinesReversed(pods) ==
  IF pods = << >> THEN << >>
  ELSE LET pod == Head(pods)
       IN PodLinesReversed(Tail(pods))
            \o SubpodLines(GetOr(pod.title, ""), GetOr(pod.subpods, << >>))

\* the outer loop: results after all pods
RECURSIVE PodLines(_)
PodLines(pods) ==
  IF pods = << >> THEN << >>
  ELSE LET pod == Head(pods)
       IN SubpodLines(GetOr(pod.title, ""), GetOr(pod.subpods, << >>))
            \o PodLines(Tail(pods))

\* a slip: a missing success key counts as success
ReportsSuccessByDefault(data) ==
  IF IsSome(data.queryresult) THEN GetOr(Get(data.queryresult).success, TRUE)
  ELSE FALSE

\* data.get('queryresult', {}).get('success', False)
ReportsSuccess(data) ==
  IF IsSome(data.queryresult) THEN GetOr(Get(data.queryresult).success, FALSE)
  ELSE FALSE

\* the try block, lines 240-291
ExecuteBody(h) ==
  IF IsSome(h.exc) THEN Raise(Get(h.exc))
  ELSE IF ~h.data.is_object
  THEN Raise(Exc("AttributeError", "'list' object has no attribute 'get'"))
  ELSE IF ~ReportsSuccess(h.data)
  THEN Return(Failure("Wolfram Alpha could not process the query"))
  ELSE LET results == PodLines(GetOr(Get(h.data.queryresult).pods, << >>))
       IN IF results = << >>
          THEN Return(Failure("No readable results found"))
          ELSE Return(Success(JoinLines(results)))

\* a slip: only the first except clause
ExecuteHandlersRequestOnly(e) ==
  IF Catches("RequestException", e)
  THEN Return(Failure("API request failed: " \o e.msg))
  ELSE Raise(e)

\* the two except clauses, lines 293-308
ExecuteHandlers(e) ==
  IF Catches("RequestException", e)
  THEN Return(Failure("API request failed: " \o e.msg))
  ELSE IF Catches("Exception", e)
  THEN Return(Failure("Unexpected error: " \o e.msg))
  ELSE Raise(e)

\* _execute_wolfram_query, given what the HTTP call does
execute_wolfram_query(h) ==
  LET body == ExecuteBody(h)
  IN IF IsSome(body.raised) THEN ExecuteHandlers(Get(body.raised)) ELSE body

----------------------------------------------------------------------------
(* The nodes of the workflow, as functions of the state they receive and of
   what the outside world answers *)

\* ChatPromptTemplate.from_messages(...).format_messages(...)
Prompt(role, content) == [role |-> role, content |-> content]

ClassifierInstructions == "You are a query classifier. ..."
FormulatorInstructions == "You are an expert at formulating queries for Wolfram Alpha. ..."
AugmentedInstructions == "You are a helpful AI assistant. The user asked a question that required computational/factual lookup, ..."
DirectInstructions == "You are a helpful AI assistant. Respond to the user's question directly and conversationally. ..."

ClassificationPrompt(query) ==
  << Prompt("system", ClassifierInstructions), Prompt("human", query) >>

FormulationPrompt(original_query) ==
  << Prompt("system", FormulatorInstructions), Prompt("human", original_query) >>

ResponsePrompt(original_query, wolfram_result) ==
  << Prompt("system", AugmentedInstructions),
     Prompt("human", "Original question: " \o original_query),
     Prompt("human", "Wolfram Alpha results: " \o wolfram_result) >>

DirectPrompt(query) ==
  << Prompt("system", DirectInstructions), Prompt("human", query) >>

\* a slip: the reply is not stripped
NeedsWolframUnstripped(content) == Upper(content) = YES

\* response.content.strip().upper() == "YES"
NeedsWolfram(content) == Upper(Strip(content)) = YES

ClassificationText(needs_wolfram) ==
  IF needs_wolfram THEN "Needs Wolfram Alpha" ELSE "Direct response"

\* a slip: the failure is logged and raised again
ClassifyHandlerReraises(state, e) == Raise(e)

\* _classify_query, the except clause
ClassifyHandler(state, e) ==
  IF Catches("Exception", e)
  THEN Return([state EXCEPT
         !.needs_wolfram = FALSE,
         !.used_wolfram = FALSE,
         !.messages = state.messages
            \o << SystemMessage("Classification error: " \o e.msg) >>])
  ELSE Raise(e)

\* _classify_query, given what the model call does
classify_query(state, o) ==
  IF o.ok
  THEN LET needs_wolfram == NeedsWolfram(o.content)
       IN Return([state EXCEPT
            !.needs_wolfram = needs_wolfram,
            !.used_wolfram = FALSE,
            !.messages = state.messages
               \o << SystemMessage("Query classification: "
                                     \o ClassificationText(needs_wolfram)) >>])
  ELSE ClassifyHandler(state, o.exc)

\* a slip: the lookup branch is always taken
should_use_wolfram_always(state) == "wolfram"

\* _should_use_wolfram
should_use_wolfram(state) == IF state.needs_wolfram THEN "wolfram" ELSE "direct"

\* a slip: the two targets of the mapping exchanged
ConditionalEdgeSwapped(route) ==
  IF route = "wolfram" THEN "generate_response" ELSE "wolfram_search"

\* the mapping of add_conditional_edges
ConditionalEdge(route) ==
  IF route = "wolfram" THEN "wolfram_search" ELSE "generate_response"

\* a slip: the failure is logged and raised again
QueryHandlerReraises(state, e) == Raise(e)

\* _query_wolfram, the except clause
QueryHandler(state, e) ==
  IF Catches("Exception", e)
  THEN Return([state EXCEPT
         !.wolfram_result = Some("Error querying Wolfram Alpha: " \o e.msg),
         !.used_wolfram = FALSE,
         !.messages = state.messages
            \o << SystemMessage("Wolfram Alpha error: " \o e.msg) >>])
  ELSE Raise(e)

\* a slip: the flag says the lookup was attempted, not that it succeeded
UsedAfterLookupAttempted(result) == TRUE

\* "used_wolfram": result.success
UsedAfterLookup(result) == result.success

\* a slip: the two arms of the conditional swapped
ResultAfterLookupSwapped(result) ==
  IF ~result.success THEN result.result
  ELSE Some("Error: " \o GetOr(result.error, "None"))

\* "wolfram_result": result.result if result.success else f"Error: {result.error}"
ResultAfterLookup(result) ==
  IF result.success THEN result.result
  ELSE Some("Error: " \o GetOr(result.error, "None"))

\* a slip: the lookup stage clears the decision once it has acted on it
QueryReturnClearsDecision(state, wolfram_query, result) ==
  Return([state EXCEPT
    !.needs_wolfram = FALSE,
    !.wolfram_result = ResultAfterLookup(result),
    !.used_wolfram = UsedAfterLookup(result),
    !.messages = state.messages
       \o << SystemMessage("Wolfram Query: " \o wolfram_query) >>])

\* the return of _query_wolfram after execute returned
QueryReturn(state, wolfram_query, result) ==
  Return([state EXCEPT
    !.wolfram_result = ResultAfterLookup(result),
    !.used_wolfram = UsedAfterLookup(result),
    !.messages = state.messages
       \o << SystemMessage("Wolfram Query: " \o wolfram_query),
             SystemMessage("Wolfram Result: " \o
               (IF result.success THEN GetOr(result.result, "None")
                ELSE GetOr(result.error, "None"))) >>])

\* wolfram_query_response.content.strip()
WolframQuery(content) == Str(Strip(content))

\* _query_wolfram, given what the formulator call and the HTTP call do
query_wolfram(state, f, h) ==
  IF ~f.ok THEN QueryHandler(state, f.exc)
  ELSE LET executed == execute_wolfram_query(h)
       IN IF IsSome(executed.raised)
          THEN QueryHandler(state, Get(executed.raised))
          ELSE QueryReturn(state, WolframQuery(f.content), Get(executed.value))

\* the truth value of state.get("wolfram_result")
Truthy(opt) == IsSome(opt) /\ Get(opt) # ""

\* a slip: the test of used_wolfram left out
UsesWolframPromptIfResult(state) ==
  state.needs_wolfram /\ Truthy(state.wolfram_result)

\* the condition of _generate_response
UsesWolframPrompt(state) ==
  state.needs_wolfram /\ Truthy(state.wolfram_result) /\ state.used_wolfram

\* a slip: the lookup result is not passed to the template
SynthesisPromptWithoutResult(state) ==
  IF UsesWolframPrompt(state)
  THEN ResponsePrompt(state.user_query, state.user_query)
  ELSE DirectPrompt(state.user_query)

\* the prompt _generate_response sends
SynthesisPrompt(state) ==
  IF UsesWolframPrompt(state)
  THEN ResponsePrompt(state.user_query, GetOr(state.wolfram_result, "None"))
  ELSE DirectPrompt(state.user_query)

\* a slip: the answer is not appended to the messages
GenerateReturnWithoutTurn(state, content) ==
  Return([state EXCEPT !.final_response = Some(content)])

\* the return of _generate_response
GenerateReturn(state, content) ==
  Return([state EXCEPT
    !.final_response = Some(content),
    !.messages = state.messages \o << AIMessage(content) >>])

\* _generate_response, given what the model call does (no try block here)
generate_response(state, s) ==
  IF s.ok THEN GenerateReturn(state, s.content) ELSE Raise(s.exc)

\* the state after a node returned: every key is overwritten with the value
\* returned, but messages goes through its reducer
ApplyUpdate(state, update) ==
  [update EXCEPT !.messages = add_messages(state.messages, update.messages)]

\* initial_state of chat
InitialState(user_message) ==
  [messages |-> << HumanMessage(user_message) >>,
   user_query |-> user_message,
   needs_wolfram |-> FALSE,
   wolfram_result |-> None,
   final_response |-> None,
   used_wolfram |-> FALSE]

\* the state the compiled graph starts from: the input written to the channels
InputState(input) ==
  [input EXCEPT !.messages = add_messages(<< >>, input.messages)]

Apology(e) ==
  "I apologize, but I encountered an error processing your request: " \o e.msg

\* a slip: a clause that names the transport errors only
ChatHandlerNarrow(e) ==
  IF Catches("RequestException", e) THEN Return(Apology(e)) ELSE Raise(e)

\* the except clause of chat
ChatHandler(e) ==
  IF Catches("Exception", e) THEN Return(Apology(e)) ELSE Raise(e)

\* the except clause of chat_endpoint: HTTPException(500)
EndpointHandler(e) ==
  [status |-> 500, content |-> "Error processing your request: " \o e.msg,
   usedWolfram |-> FALSE]

\* ChatResponse(content, usedWolfram, ...)
ChatResponse(content, usedWolfram) ==
  [status |-> 200, content |-> content, usedWolfram |-> usedWolfram]

----------------------------------------------------------------------------
(* State *)

VARIABLES
  last_used_wolfram,  \* self.last_used_wolfram of the one agent
  pc,                 \* per request: where its chat_endpoint call stands
  state,              \* per request: the AgentState of its workflow run, if begun
  visited,            \* per request: the nodes run so far, in order
  llmCalls,           \* per request: the self.llm.invoke calls made, in order
  httpCalls,          \* per request: the requests.get calls made, in order
  lookup,             \* per request: what _execute_wolfram_query returned, if called
  escaped,            \* per request: the exception that left the workflow, if any
  chatResult,         \* per request: what chat returned, if it has
  response,           \* per request: what chat_endpoint answered, if it has
  previous            \* per request: the calls and the answer of the call before, if any

vars == << last_used_wolfram, pc, state, visited, llmCalls, httpCalls, lookup,
           escaped, chatResult, response, previous >>

St(r) == Get(state[r])

LlmCall(stage, prompt, o) == [stage |-> stage, prompt |-> prompt, reply |-> o]
HttpCall(input, h) ==
  [input |-> input, format |-> "plaintext", output |-> "json", answer |-> h]

\* WolframAlphaLangGraphAgent.__init__, and no request arrived yet
Init ==
  /\ last_used_wolfram = FALSE
  /\ pc = [r \in Requests |-> "idle"]
  /\ state = [r \in Requests |-> None]
  /\ visited = [r \in Requests |-> << >>]
  /\ llmCalls = [r \in Requests |-> << >>]
  /\ httpCalls = [r \in Requests |-> << >>]
  /\ lookup = [r \in Requests |-> None]
  /\ escaped = [r \in Requests |-> None]
  /\ chatResult = [r \in Requests |-> None]
  /\ response = [r \in Requests |-> None]
  /\ previous = [r \in Requests |-> None]

\* a slip: a node that raised is run again
NodeEndsRetrying(r, out, next) ==
  IF IsSome(out.raised)
  THEN UNCHANGED << state, pc, escaped, chatResult, response >>
  ELSE /\ state' = [state EXCEPT ![r] = Some(ApplyUpdate(St(r), Get(out.value)))]
       /\ pc' = [pc EXCEPT ![r] = next]
       /\ UNCHANGED << escaped, chatResult, response >>

\* a node of request r ended with `out`; `next` is the node after it.
\* An exception leaves app.invoke and reaches the except clause of chat, and
\* from there, if chat does not catch it, the except clause of chat_endpoint.
NodeEnds(r, out, next) ==
  IF IsSome(out.raised)
  THEN LET e == Get(out.raised)
           caught == ChatHandler(e)
       IN /\ escaped' = [escaped EXCEPT ![r] = Some(e)]
          /\ state' = state
          /\ IF IsSome(caught.raised)
             THEN /\ pc' = [pc EXCEPT ![r] = "done"]
                  /\ chatResult' = chatResult
                  /\ response' = [response EXCEPT ![r] = Some(EndpointHandler(e))]
             ELSE /\ pc' = [pc EXCEPT ![r] = "returned"]
                  /\ chatResult' = [chatResult EXCEPT ![r] = caught.value]
                  /\ response' = response
  ELSE /\ state' = [state EXCEPT ![r] = Some(ApplyUpdate(St(r), Get(out.value)))]
       /\ pc' = [pc EXCEPT ![r] = next]
       /\ UNCHANGED << escaped, chatResult, response >>

\* chat_endpoint calls agent.chat, which builds initial_state and starts the graph
Begin(r) ==
  /\ pc[r] = "idle"
  /\ state' = [state EXCEPT ![r] = Some(InputState(InitialState(UserMessage(r))))]
  /\ pc' = [pc EXCEPT ![r] = "classifier"]
  /\ UNCHANGED << last_used_wolfram, visited, llmCalls, httpCalls, lookup,
                  escaped, chatResult, response, previous >>

\* node "classifier" and the conditional edge after it
ClassifyFrom(r, outcomes) ==
  /\ pc[r] = "classifier"
  /\ \E o \in outcomes :
       LET out == classify_query(St(r), o)
       IN /\ llmCalls' = [llmCalls EXCEPT ![r] =
               Append(@, LlmCall("classifier", ClassificationPrompt(St(r).user_query), o))]
          /\ visited' = [visited EXCEPT ![r] = Append(@, "classifier")]
          /\ NodeEnds(r, out,
               IF IsSome(out.value)
               THEN ConditionalEdge(should_use_wolfram(Get(out.value)))
               ELSE "END")
  /\ UNCHANGED << last_used_wolfram, httpCalls, lookup, previous >>

Classify(r) == ClassifyFrom(r, ClassifierOutcomes)

ClassifyWide(r) == ClassifyFrom(r, ClassifierOutcomesWide)

\* node "wolfram_search" and the edge to generate_response
QueryWolframFrom(r, formulations, answers) ==
  /\ pc[r] = "wolfram_search"
  /\ \E f \in formulations :
       \E h \in IF f.ok THEN answers ELSE { HttpJson(NoData) } :
         /\ llmCalls' = [llmCalls EXCEPT ![r] =
              Append(@, LlmCall("formulator", FormulationPrompt(St(r).user_query), f))]
         /\ httpCalls' = [httpCalls EXCEPT ![r] =
              IF f.ok THEN Append(@, HttpCall(WolframQuery(f.content), h)) ELSE @]
         /\ lookup' = [lookup EXCEPT ![r] =
              IF f.ok THEN execute_wolfram_query(h).value ELSE @]
         /\ visited' = [visited EXCEPT ![r] = Append(@, "wolfram_search")]
         /\ NodeEnds(r, query_wolfram(St(r), f, h), "generate_response")
  /\ UNCHANGED << last_used_wolfram, previous >>

QueryWolfram(r) == QueryWolframFrom(r, FormulatorOutcomes, HttpOutcomes)

\* the lookup reached with a formulated query, over answers of every shape
QueryWolframWide(r) ==
  QueryWolframFrom(r, { f \in FormulatorOutcomes : f.ok }, HttpOutcomesWide)

\* the classifier replying YES, which is what leads to the lookup
ClassifyYes(r) == ClassifyFrom(r, { LlmOk(YES) })

\* node "generate_response" and the edge to END
GenerateResponse(r) ==
  /\ pc[r] = "generate_response"
  /\ \E s \in SynthesisOutcomes :
       /\ llmCalls' = [llmCalls EXCEPT ![r] =
            Append(@, LlmCall("synthesis", SynthesisPrompt(St(r)), s))]
       /\ visited' = [visited EXCEPT ![r] = Append(@, "generate_response")]
       /\ last_used_wolfram' = IF s.ok THEN St(r).used_wolfram ELSE last_used_wolfram
       /\ NodeEnds(r, generate_response(St(r), s), "END")
  /\ UNCHANGED << httpCalls, lookup, previous >>

\* a slip: chat starts the workflow over instead of returning
ChatReturnStartsOver(r) ==
  /\ pc[r] = "END"
  /\ state' = [state EXCEPT ![r] = Some(InputState(InitialState(UserMessage(r))))]
  /\ visited' = [visited EXCEPT ![r] = << >>]
  /\ llmCalls' = [llmCalls EXCEPT ![r] = << >>]
  /\ httpCalls' = [httpCalls EXCEPT ![r] = << >>]
  /\ lookup' = [lookup EXCEPT ![r] = None]
  /\ pc' = [pc EXCEPT ![r] = "classifier"]
  /\ UNCHANGED << last_used_wolfram, escaped, chatResult, response, previous >>

\* chat after app.invoke returned final_state
ChatReturn(r) ==
  /\ pc[r] = "END"
  /\ last_used_wolfram' = St(r).used_wolfram
  /\ chatResult' = [chatResult EXCEPT ![r] = St(r).final_response]
  /\ pc' = [pc EXCEPT ![r] = "returned"]
  /\ UNCHANGED << state, visited, llmCalls, httpCalls, lookup, escaped, response,
                  previous >>

\* chat_endpoint after agent.chat returned: it reads agent.last_used_wolfram
EndpointRespond(r) ==
  /\ pc[r] = "returned"
  /\ response' = [response EXCEPT ![r] =
       Some(ChatResponse(Get(chatResult[r]), last_used_wolfram))]
  /\ pc' = [pc EXCEPT ![r] = "done"]
  /\ UNCHANGED << last_used_wolfram, state, visited, llmCalls, httpCalls, lookup,
                  escaped, chatResult, previous >>

Next ==
  \E r \in Requests :
    \/ Begin(r)
    \/ Classify(r)
    \/ QueryWolfram(r)
    \/ GenerateResponse(r)
    \/ ChatReturn(r)
    \/ EndpointRespond(r)

Spec == Init /\ [][Next]_vars

\* chat_endpoint is a coroutine that never awaits: under the one event loop of
\* uvicorn a request begins only when no other request is under way
BeginSerial(r) ==
  /\ \A q \in Requests \ {r} : pc[q] \in {"idle", "done"}
  /\ Begin(r)

NextSerial ==
  \E r \in Requests :
    \/ BeginSerial(r)
    \/ Classify(r)
    \/ QueryWolfram(r)
    \/ GenerateResponse(r)
    \/ ChatReturn(r)
    \/ EndpointRespond(r)

SpecSerial == Init /\ [][NextSerial]_vars

\* requests served one after the other, in the order of their arrival
BeginInTurn(r) ==
  /\ \A q \in Requests : q < r => pc[q] = "done"
  /\ Begin(r)

\* the lookup branch, over many answers of the API
NextExecute ==
  \E r \in Requests :
    \/ BeginInTurn(r)
    \/ ClassifyYes(r)
    \/ QueryWolframWide(r)
    \/ GenerateResponse(r)
    \/ ChatReturn(r)
    \/ EndpointRespond(r)

SpecExecute == Init /\ [][NextExecute]_vars

\* the lookup answering or timing out, after a formulator call that replied
\* or failed
QueryWolframEither(r) ==
  QueryWolframFrom(r, FormulatorOutcomes,
    { ScenarioA, HttpRaises("Timeout", "Read timed out. (read timeout=30)") })

\* the next step of the request under way
Proceed ==
  \E r \in Requests :
    \/ Classify(r)
    \/ QueryWolframEither(r)
    \/ GenerateResponse(r)
    \/ ChatReturn(r)
    \/ EndpointRespond(r)

NextFair == (\E r \in Requests : BeginInTurn(r)) \/ Proceed

\* every model call and the HTTP call (timeout=30) returns or raises in the
\* end, and the code between them runs on: the request under way takes its
\* next step.  A request need not arrive, so Begin is not forced.
SpecFair == Init /\ [][NextFair]_vars /\ WF_vars(Proceed)

\* the client of r, answered, sends the same message again: a new
\* chat_endpoint call on the same agent, the one before kept for comparison
CallAgain(r) ==
  /\ pc[r] = "done"
  /\ previous' = [previous EXCEPT ![r] =
       Some([llmCalls |-> llmCalls[r], httpCalls |-> httpCalls[r],
             usedWolfram |-> Get(response[r]).usedWolfram])]
  /\ pc' = [pc EXCEPT ![r] = "idle"]
  /\ state' = [state EXCEPT ![r] = None]
  /\ visited' = [visited EXCEPT ![r] = << >>]
  /\ llmCalls' = [llmCalls EXCEPT ![r] = << >>]
  /\ httpCalls' = [httpCalls EXCEPT ![r] = << >>]
  /\ lookup' = [lookup EXCEPT ![r] = None]
  /\ escaped' = [escaped EXCEPT ![r] = None]
  /\ chatResult' = [chatResult EXCEPT ![r] = None]
  /\ response' = [response EXCEPT ![r] = None]
  /\ UNCHANGED last_used_wolfram

\* the classifier deciding either way
ClassifyDecided(r) == ClassifyFrom(r, { LlmOk(YES), LlmOk(<< "N", "O" >>) })

\* the lookup answering the formulated query
QueryWolframAnswered(r) ==
  QueryWolframFrom(r, { f \in FormulatorOutcomes : f.ok }, { ScenarioA })

\* calls repeated on the one agent, one at a time
NextRepeat ==
  \E r \in Requests :
    \/ BeginSerial(r)
    \/ ClassifyDecided(r)
    \/ QueryWolframAnswered(r)
    \/ GenerateResponse(r)
    \/ ChatReturn(r)
    \/ EndpointRespond(r)
    \/ CallAgain(r)

SpecRepeat == Init /\ [][NextRepeat]_vars

\* the classifier stage alone, over many replies of the model
NextClassify == \E r \in Requests : Begin(r) \/ ClassifyWide(r)

SpecClassify == Init /\ [][NextClassify]_vars

----------------------------------------------------------------------------
(* Vocabulary of the properties *)

Begun(r) == IsSome(state[r])

\* the workflow of r ran to its END node
WorkflowEnded(r) == pc[r] \in {"END", "returned", "done"} /\ escaped[r] = None

\* chat of r has returned to chat_endpoint
ChatReturned(r) == pc[r] \in {"returned", "done"}

LookupSucceeded(r) == IsSome(lookup[r]) /\ Get(lookup[r]).success
LookupFailed(r) == IsSome(lookup[r]) /\ ~Get(lookup[r]).success

CallsOf(r, stage) == { i \in 1 .. Len(llmCalls[r]) : llmCalls[r][i].stage = stage }

\* the model call of that stage was made and failed
CallFailed(r, stage) == \E i \in CallsOf(r, stage) : ~llmCalls[r][i].reply.ok

----------------------------------------------------------------------------
(* C1 *)

\* C1: for every chat call that reaches the end of the workflow, the final
\* used_wolfram is true if and only if the classifier set needs_wolfram to
\* true and the external lookup call returned a success outcome.
C1_UsedIffNeededAndSucceeded ==
  \A r \in Requests :
    WorkflowEnded(r) =>
      (St(r).used_wolfram <=> (St(r).needs_wolfram /\ LookupSucceeded(r)))

\* one call ended having used the lookup, another ended after a failed lookup
C1_Witness ==
  \E r, q \in Requests :
    /\ WorkflowEnded(r) /\ St(r).used_wolfram /\ LookupSucceeded(r)
    /\ WorkflowEnded(q) /\ St(q).needs_wolfram /\ LookupFailed(q)

----------------------------------------------------------------------------
(* C2 *)

\* C2: in every reachable AgentState of a chat call, after any prefix of the
\* stages, used_wolfram implies needs_wolfram, and used_wolfram is never true
\* while wolfram_result is absent or is the text of a failed lookup: it is
\* then the result text of the successful lookup.
C2_UsedImpliesNeededAndResult ==
  \A r \in Requests :
    (Begun(r) /\ St(r).used_wolfram) =>
      /\ St(r).needs_wolfram
      /\ IsSome(St(r).wolfram_result)
      /\ LookupSucceeded(r)
      /\ St(r).wolfram_result = Get(lookup[r]).result

\* between the lookup stage and the synthesis stage, with the flag set
C2_Witness ==
  \E r \in Requests :
    pc[r] = "generate_response" /\ St(r).used_wolfram /\ visited[r][2] = "wolfram_search"

----------------------------------------------------------------------------
(* C3 *)

\* C3: when several chat requests are processed on the same agent, in any
\* interleaving of their stages, the used-lookup flag reported to each
\* request's caller equals used_wolfram of that request's own AgentState
\* (stated here for the calls whose workflow ran to its END node, where the
\* final AgentState exists).
C3_ReportedFlagIsOwnFlag ==
  \A r \in Requests :
    (WorkflowEnded(r) /\ IsSome(response[r])) =>
      Get(response[r]).usedWolfram = St(r).used_wolfram

----------------------------------------------------------------------------
(* C4 *)

\* C4: chat never propagates a failure to its caller: whatever combination of
\* the classifier call, the formulator call, the lookup HTTP call and the
\* synthesis call fails, chat returns a string, chat_endpoint never answers
\* with its own error, and when the synthesis call failed (or any exception
\* left the workflow) the string returned is the apology message.
C4_ChatNeverRaises ==
  \A r \in Requests :
    /\ ChatReturned(r) =>
         /\ IsSome(chatResult[r])
         /\ IsSome(escaped[r]) => chatResult[r] = Some(Apology(Get(escaped[r])))
         /\ CallFailed(r, "synthesis") =>
              /\ IsSome(escaped[r])
              /\ chatResult[r] =
                   Some("I apologize, but I encountered an error processing your request: "
                          \o "Request timed out.")
         /\ escaped[r] = None => chatResult[r] = St(r).final_response
    /\ IsSome(response[r]) =>
         /\ Get(response[r]).status = 200
         /\ Some(Get(response[r]).content) = chatResult[r]
    /\ IsSome(escaped[r]) => ChatReturned(r)

\* a call whose lookup failed and whose synthesis call failed has been answered
C4_Witness ==
  \E r \in Requests :
    /\ pc[r] = "done"
    /\ LookupFailed(r)
    /\ CallFailed(r, "synthesis")
    /\ \E q \in Requests : pc[q] = "done" /\ CallFailed(q, "classifier")
         /\ CallFailed(q, "synthesis")

----------------------------------------------------------------------------
(* C5 *)

\* C5: when a chat call ends with the apology string because an exception
\* left a stage, the used-lookup flag reported for that call is false,
\* whatever the outcome of earlier calls on the same agent was.
C5_ApologyReportsFalse ==
  \A r \in Requests :
    (IsSome(response[r]) /\ IsSome(escaped[r])) => ~Get(response[r]).usedWolfram

----------------------------------------------------------------------------
(* C6 *)

\* the reply is the token YES, letter case ignored
IsYesToken(cs) ==
  /\ Len(cs) = 3
  /\ cs[1] \in {"Y", "y"}
  /\ cs[2] \in {"E", "e"}
  /\ cs[3] \in {"S", "s"}

\* the reply is the token YES, letter case ignored, between whitespace only
IsYesTokenInWhitespace(cs) ==
  \E a, b \in 0 .. Len(cs) :
    /\ a + 3 + b = Len(cs)
    /\ \A i \in 1 .. a : cs[i] \in Whitespace
    /\ \A i \in (a + 4) .. Len(cs) : cs[i] \in Whitespace
    /\ IsYesToken(SubSeq(cs, a + 1, a + 3))

ClassifierDone(r) == Begun(r) /\ Len(visited[r]) >= 1
ClassifierReply(r) == llmCalls[r][1].reply

\* C6 as claimed: after the classifier stage, needs_wolfram is true exactly
\* when the classifier model's reply is the token YES compared
\* case-insensitively; for every other reply it is false.
C6_ExactTokenOnly ==
  \A r \in Requests :
    (ClassifierDone(r) /\ ClassifierReply(r).ok) =>
      (St(r).needs_wolfram <=> IsYesToken(ClassifierReply(r).content))

\* C6 as amended: after the classifier stage, needs_wolfram is true exactly
\* when the classifier model's reply, with the whitespace around it removed,
\* is the token YES compared case-insensitively; for every other reply it is
\* false.
C6_TrimmedTokenOnly ==
  \A r \in Requests :
    (ClassifierDone(r) /\ ClassifierReply(r).ok) =>
      (St(r).needs_wolfram <=> IsYesTokenInWhitespace(ClassifierReply(r).content))

\* one call classified on a lower-case yes between whitespace, another on a
\* YES followed by other words
C6_Witness ==
  \E r, q \in Requests :
    /\ ClassifierDone(r) /\ St(r).needs_wolfram
    /\ ClassifierReply(r).content = << "\t", "y", "e", "s", " ", "\n" >>
    /\ ClassifierDone(q) /\ ~St(q).needs_wolfram
    /\ ClassifierReply(q).content = << "Y", "E", "S", " ", "N", "O" >>

----------------------------------------------------------------------------
(* C7 *)

\* C7: if invoking the classifier model fails, the classifier stage does not
\* raise: it sets needs_wolfram and used_wolfram to false, appends one entry
\* recording the failure to the turn log, and the workflow continues to
\* direct-answer synthesis (the lookup stage is not run).
C7_ClassifierFailsClosed ==
  \A r \in Requests :
    (ClassifierDone(r) /\ ~ClassifierReply(r).ok) =>
      /\ ~St(r).needs_wolfram
      /\ ~St(r).used_wolfram
      /\ Len(visited[r]) = 1 => (pc[r] = "generate_response" /\ escaped[r] = None)
      /\ Len(visited[r]) = 1 =>
           St(r).messages =
             << [type |-> "human", content |-> UserMessage(r), id |-> 1],
                [type |-> "system",
                 content |-> "Classification error: " \o ClassifierReply(r).exc.msg,
                 id |-> 2] >>
      /\ \A i \in 1 .. Len(visited[r]) : visited[r][i] # "wolfram_search"
      /\ httpCalls[r] = << >> /\ CallsOf(r, "formulator") = {}
      /\ \A i \in CallsOf(r, "synthesis") :
           llmCalls[r][i].prompt = DirectPrompt(UserMessage(r))

\* after a failed classifier call the synthesis stage has run
C7_Witness ==
  \E r \in Requests :
    /\ ClassifierDone(r) /\ ~ClassifierReply(r).ok
    /\ visited[r] = << "classifier", "generate_response" >>
    /\ WorkflowEnded(r)

----------------------------------------------------------------------------
(* C8 *)

\* C8: if the lookup outcome is a failure of any kind (transport failure, API
\* reports no success, no readable text, unexpected exception), the
\* synthesis stage uses the direct-answer prompt, which contains only the
\* original question, and used_wolfram is false at the end of the call.
C8_FailedLookupGoesDirect ==
  \A r \in Requests :
    LookupFailed(r) =>
      /\ ~St(r).used_wolfram
      /\ \A i \in CallsOf(r, "synthesis") :
           llmCalls[r][i].prompt =
             << [role |-> "system", content |-> DirectInstructions],
                [role |-> "human", content |-> UserMessage(r)] >>

\* a failure of the given kind, followed by a synthesis call
FailedWith(r, error) ==
  /\ LookupFailed(r)
  /\ Get(lookup[r]).error = Some(error)
  /\ CallsOf(r, "synthesis") # {}

C8_Witness ==
  \E r, q \in Requests :
    /\ FailedWith(r, "API request failed: Connection refused")
    /\ FailedWith(q, "No readable results found")
    /\ WorkflowEnded(r) /\ WorkflowEnded(q)

----------------------------------------------------------------------------
(* C9 *)

\* C9: if needs_wolfram is true and the lookup outcome is success, the
\* synthesis stage uses the lookup-augmented prompt, which carries both the
\* original question and the normalized lookup result text; the two
\* synthesis strategies are mutually exclusive: exactly one synthesis model
\* call is made per call and it uses exactly one of the two prompts.
C9_SucceededLookupGoesAugmented ==
  \A r \in Requests :
    /\ Cardinality(CallsOf(r, "synthesis")) <= 1
    /\ ChatReturned(r) \/ pc[r] = "END" => Cardinality(CallsOf(r, "synthesis")) = 1
    /\ \A i \in CallsOf(r, "synthesis") :
         LET prompt == llmCalls[r][i].prompt
             augmented ==
               << [role |-> "system", content |-> AugmentedInstructions],
                  [role |-> "human",
                   content |-> "Original question: " \o UserMessage(r)],
                  [role |-> "human",
                   content |-> "Wolfram Alpha results: " \o
                                 GetOr(GetOr(lookup[r], Failure("")).result, "")] >>
             direct ==
               << [role |-> "system", content |-> DirectInstructions],
                  [role |-> "human", content |-> UserMessage(r)] >>
         IN /\ (St(r).needs_wolfram /\ LookupSucceeded(r)) => prompt = augmented
            /\ ~(St(r).needs_wolfram /\ LookupSucceeded(r)) => prompt = direct
            /\ augmented # direct

\* a call answered from the lookup result
C9_Witness ==
  \E r \in Requests :
    /\ WorkflowEnded(r)
    /\ St(r).needs_wolfram /\ LookupSucceeded(r)
    /\ Get(lookup[r]).result = Some("Indefinite integral: x^3/3 + 3x^2/2 + constant")
    /\ Cardinality(CallsOf(r, "synthesis")) = 1

----------------------------------------------------------------------------
(* C10 *)

ViaLookup == << "classifier", "wolfram_search", "generate_response" >>
Direct == << "classifier", "generate_response" >>

IsPrefix(p, q) == Len(p) <= Len(q) /\ SubSeq(q, 1, Len(p)) = p

\* C10: every chat call moves through the stages in the order START,
\* CLASSIFIED, then exactly one of LOOKUP_DONE or SKIPPED, then RESPONDED,
\* then END; no stage is entered twice and synthesis never runs before
\* classification (or before the lookup stage when the lookup branch was
\* taken).  The stages are read off the nodes run: CLASSIFIED is the
\* classifier node run, LOOKUP_DONE the wolfram_search node run, SKIPPED the
\* direct edge taken, RESPONDED the generate_response node run, END the
\* workflow left (with the final response, or with the apology when the
\* synthesis call failed).
C10_StageOrder ==
  \A r \in Requests :
    /\ IsPrefix(visited[r], ViaLookup) \/ IsPrefix(visited[r], Direct)
    /\ pc[r] = "idle" => (~Begun(r) /\ visited[r] = << >>)
    /\ pc[r] = "classifier" => (Begun(r) /\ visited[r] = << >>)
    /\ pc[r] = "wolfram_search" => (visited[r] = << "classifier" >> /\ St(r).needs_wolfram)
    /\ pc[r] = "generate_response" =>
         \/ visited[r] = << "classifier" >> /\ ~St(r).needs_wolfram
         \/ visited[r] = << "classifier", "wolfram_search" >> /\ St(r).needs_wolfram
    /\ pc[r] \in {"END", "returned", "done"} =>
         \/ visited[r] = Direct /\ ~St(r).needs_wolfram
         \/ visited[r] = ViaLookup /\ St(r).needs_wolfram
    /\ pc[r] \in {"END", "returned", "done"} <=>
         (Begun(r) /\ (IsSome(St(r).final_response) \/ IsSome(escaped[r])))

\* one call went through the lookup stage, another skipped it; both ended
C10_Witness ==
  \E r, q \in Requests :
    /\ pc[r] = "done" /\ visited[r] = ViaLookup
    /\ pc[q] = "done" /\ visited[q] = Direct

----------------------------------------------------------------------------
(* C11 *)

\* C11: if the classifier stage ends with needs_wolfram false (reply other
\* than YES, or classifier failure), neither the query formulator model call
\* nor the external lookup HTTP call is ever made in that chat call, and
\* used_wolfram is false at the end.
C11_NoLookupWhenNotNeeded ==
  \A r \in Requests :
    (ClassifierDone(r) /\ ~St(r).needs_wolfram) =>
      /\ CallsOf(r, "formulator") = {}
      /\ httpCalls[r] = << >>
      /\ lookup[r] = None
      /\ \A i \in 1 .. Len(visited[r]) : visited[r][i] # "wolfram_search"
      /\ ~St(r).used_wolfram
      /\ St(r).wolfram_result = None

\* a call classified NO has run to its end
C11_Witness ==
  \E r \in Requests :
    /\ WorkflowEnded(r)
    /\ ClassifierReply(r).ok /\ ClassifierReply(r).content = << "N", "O" >>
    /\ ~St(r).needs_wolfram
    /\ visited[r] = Direct

----------------------------------------------------------------------------
(* C12 *)

\* C12: if the query formulator model call fails, the lookup branch is
\* aborted: the external lookup HTTP call is not made, the stage does not
\* raise, used_wolfram is false, and the workflow proceeds to synthesis on
\* the direct-answer path.
C12_FormulatorFailureAborts ==
  \A r \in Requests :
    CallFailed(r, "formulator") =>
      /\ httpCalls[r] = << >>
      /\ lookup[r] = None
      /\ ~St(r).used_wolfram
      /\ Len(visited[r]) = 2 => (pc[r] = "generate_response" /\ escaped[r] = None)
      /\ St(r).wolfram_result =
           Some("Error querying Wolfram Alpha: " \o "Rate limit reached")
      /\ \A i \in CallsOf(r, "synthesis") :
           llmCalls[r][i].prompt = DirectPrompt(UserMessage(r))

\* after a failed formulator call the synthesis stage has run
C12_Witness ==
  \E r \in Requests :
    /\ CallFailed(r, "formulator")
    /\ visited[r] = ViaLookup
    /\ WorkflowEnded(r)

----------------------------------------------------------------------------
(* C13 *)

\* the HTTP call of r was made; its answer
LookupCalled(r) == httpCalls[r] # << >>
AnswerOf(r) == httpCalls[r][1].answer

\* the answer arrived and is a JSON object
Parsed(r) == LookupCalled(r) /\ AnswerOf(r).exc = None /\ AnswerOf(r).data.is_object

\* the answer reports overall success
ReportedSuccess(r) ==
  /\ Parsed(r)
  /\ IsSome(AnswerOf(r).data.queryresult)
  /\ Get(AnswerOf(r).data.queryresult).success = Some(TRUE)

\* the pods of an answer that reports success
PodsOf(r) ==
  LET pods == Get(AnswerOf(r).data.queryresult).pods
  IN IF IsSome(pods) THEN Get(pods) ELSE << >>

SubpodsOf(pod) == IF IsSome(pod.subpods) THEN Get(pod.subpods) ELSE << >>

\* the positions <<pod, subpod>> of the subpods whose plaintext is non-empty
\* after trimming
Usable(pods) ==
  UNION { { << i, j >> : j \in { k \in 1 .. Len(SubpodsOf(pods[i])) :
                                  /\ IsSome(SubpodsOf(pods[i])[k].plaintext)
                                  /\ Strip(Get(SubpodsOf(pods[i])[k].plaintext)) # << >> } }
          : i \in 1 .. Len(pods) }

\* pod order, and within a pod subpod order
Before(p, q) == p[1] < q[1] \/ (p[1] = q[1] /\ p[2] < q[2])

\* "<pod title>: <plaintext>" of the subpod at position p
LineAt(pods, p) ==
  (IF IsSome(pods[p[1]].title) THEN Get(pods[p[1]].title) ELSE "")
    \o ": " \o Str(Get(SubpodsOf(pods[p[1]])[p[2]].plaintext))

\* one line per usable subpod, in order
ExpectedLines(pods) ==
  [ k \in 1 .. Cardinality(Usable(pods)) |->
      LineAt(pods, CHOOSE p \in Usable(pods) :
                     Cardinality({ q \in Usable(pods) : Before(q, p) }) = k - 1) ]

\* C13: for an answer of the lookup API that reports success and has at
\* least one subpod whose plaintext is non-empty after trimming,
\* _execute_wolfram_query returns success whose text is the lines
\* "<pod title>: <plaintext>", one per such subpod and none for the others, in
\* pod order and within a pod in subpod order, joined with newlines; the
\* answer of scenario A gives "Indefinite integral: x^3/3 + 3x^2/2 + constant".
C13_SuccessTextIsLinesInOrder ==
  \A r \in Requests :
    (ReportedSuccess(r) /\ Usable(PodsOf(r)) # {}) =>
      /\ lookup[r] =
           Some(ToolResult(TRUE, Some(JoinLines(ExpectedLines(PodsOf(r)))),
                           None, Some("wolfram_alpha")))
      /\ AnswerOf(r) = ScenarioA =>
           Get(lookup[r]).result =
             Some("Indefinite integral: x^3/3 + 3x^2/2 + constant")

\* an answer mixing usable and unusable subpods over four pods has been read
C13_Witness ==
  \E r \in Requests :
    /\ ReportedSuccess(r)
    /\ Len(PodsOf(r)) = 4
    /\ Cardinality(Usable(PodsOf(r))) = 4
    /\ LookupSucceeded(r)
    /\ Get(lookup[r]).result =
         Some("Indefinite integral: x^3/3 + 3x^2/2 + constant\n"
              \o "Indefinite integral:  x^3/3 + (3 x^2)/2\n\n"
              \o ": plot\n"
              \o "Input: integrate x^2 + 3x")

----------------------------------------------------------------------------
(* C14 *)

\* every synthesis call of r was given the direct prompt
SynthesisDirect(r) ==
  \A i \in CallsOf(r, "synthesis") :
    llmCalls[r][i].prompt = DirectPrompt(UserMessage(r))

\* C14: if the answer of the lookup API does not report overall success
\* (queryresult or success missing, or success false),
\* _execute_wolfram_query returns the failure "Wolfram Alpha could not process
\* the query" whatever pods the answer carries, and the call ends with
\* used_wolfram false, the answer being synthesised on the direct path.
C14_NoSuccessIsFailure ==
  \A r \in Requests :
    (Parsed(r) /\ ~ReportedSuccess(r)) =>
      /\ lookup[r] =
           Some(ToolResult(FALSE, None,
                           Some("Wolfram Alpha could not process the query"),
                           Some("wolfram_alpha")))
      /\ ~St(r).used_wolfram
      /\ SynthesisDirect(r)

\* scenario B has run to its end, and so has an answer without success that
\* carries readable pods
C14_Witness ==
  \E r, q \in Requests :
    /\ LookupCalled(r) /\ AnswerOf(r) = Answer(Some(FALSE), None)
    /\ WorkflowEnded(r) /\ ~St(r).used_wolfram
    /\ LookupCalled(q) /\ AnswerOf(q) = Answer(None, Some(<< InputPod >>))
    /\ FailedWith(q, "Wolfram Alpha could not process the query")

----------------------------------------------------------------------------
(* C15 *)

\* C15: if the answer reports success but no subpod of any pod has non-empty
\* plaintext after trimming (no pods, pods without subpods, plaintext missing,
\* empty or whitespace only), _execute_wolfram_query returns the failure "No
\* readable results found" and the call ends with used_wolfram false.
C15_NothingReadableIsFailure ==
  \A r \in Requests :
    (ReportedSuccess(r) /\ Usable(PodsOf(r)) = {}) =>
      /\ lookup[r] =
           Some(ToolResult(FALSE, None, Some("No readable results found"),
                           Some("wolfram_alpha")))
      /\ ~St(r).used_wolfram
      /\ SynthesisDirect(r)

\* scenario D: pods whose plaintext is empty or whitespace only
C15_Witness ==
  \E r, q \in Requests :
    /\ ReportedSuccess(r)
    /\ PodsOf(r) = << Pod(Some("Input"), Some(<< >>)), BlankPod >>
    /\ FailedWith(r, "No readable results found")
    /\ WorkflowEnded(r) /\ ~St(r).used_wolfram
    /\ ReportedSuccess(q) /\ PodsOf(q) = << >>
    /\ FailedWith(q, "No readable results found")

----------------------------------------------------------------------------
(* C16 *)

\* the HTTP call of r raised, or its answer is not what the code reads
Raised(r) == LookupCalled(r) /\ IsSome(AnswerOf(r).exc)
Unreadable(r) == LookupCalled(r) /\ AnswerOf(r).exc = None /\ ~AnswerOf(r).data.is_object

\* C16: _execute_wolfram_query never raises: a connection error, a non-2xx
\* status, a timeout and an unexpected exception while reading the response
\* each yield a failure outcome carrying an error message that holds the
\* exception's text, and the lookup stage then continues to synthesis.
C16_ExecuteNeverRaises ==
  \A r \in Requests :
    LookupCalled(r) =>
      /\ IsSome(lookup[r])
      /\ Len(visited[r]) = 2 => (pc[r] = "generate_response" /\ escaped[r] = None)
      /\ Raised(r) =>
           /\ ~Get(lookup[r]).success
           /\ Get(lookup[r]).error =
                Some((IF Get(AnswerOf(r).exc).type
                          \in { "RequestException", "ConnectionError", "HTTPError", "Timeout" }
                      THEN "API request failed: " ELSE "Unexpected error: ")
                     \o Get(AnswerOf(r).exc).msg)
      /\ Unreadable(r) =>
           /\ ~Get(lookup[r]).success
           /\ Get(lookup[r]).error =
                Some("Unexpected error: 'list' object has no attribute 'get'")

\* a timeout and an unexpected exception have both ended in a synthesis
C16_Witness ==
  \E r, q \in Requests :
    /\ Raised(r) /\ Get(AnswerOf(r).exc).type = "Timeout"
    /\ FailedWith(r, "API request failed: Read timed out. (read timeout=30)")
    /\ Raised(q) /\ Get(AnswerOf(q).exc).type = "ValueError"
    /\ FailedWith(q, "Unexpected error: Expecting value: line 1 column 1 (char 0)")
    /\ WorkflowEnded(q)

----------------------------------------------------------------------------
(* C17 *)

\* C17: every ToolResult that _execute_wolfram_query returns is either a
\* success with a result text and no error, or a failure with an error message
\* and no result; none has both a result and an error, and all carry the same
\* source tag.
C17_OutcomeIsSuccessOrFailure ==
  \A r \in Requests :
    IsSome(lookup[r]) =>
      LET o == Get(lookup[r])
      IN /\ \/ o.success /\ IsSome(o.result) /\ Get(o.result) # "" /\ o.error = None
            \/ ~o.success /\ IsSome(o.error) /\ Get(o.error) # "" /\ o.result = None
         /\ ~(IsSome(o.result) /\ IsSome(o.error))
         /\ o.source = Some("wolfram_alpha")

\* a success and a failure have both been returned
C17_Witness ==
  \E r, q \in Requests :
    /\ LookupSucceeded(r) /\ IsSome(Get(lookup[r]).result)
    /\ LookupFailed(q) /\ IsSome(Get(lookup[q]).error)
    /\ Get(lookup[r]).source = Get(lookup[q]).source

----------------------------------------------------------------------------
(* C18 *)

\* C18: no stage is retried: within one chat call the classifier model call,
\* the formulator model call, the lookup HTTP call and the synthesis model
\* call are each made at most once, also when that call fails.
C18_EachStageAtMostOnce ==
  \A r \in Requests :
    /\ \A stage \in { "classifier", "formulator", "synthesis" } :
         Cardinality(CallsOf(r, stage)) <= 1
    /\ \A i \in 1 .. Len(llmCalls[r]) :
         llmCalls[r][i].stage \in { "classifier", "formulator", "synthesis" }
    /\ Len(httpCalls[r]) <= 1
    /\ \A i, j \in 1 .. Len(visited[r]) : visited[r][i] = visited[r][j] => i = j

\* a call whose HTTP call and synthesis failed and a call whose formulator
\* failed have ended
C18_Witness ==
  \E r, q \in Requests :
    /\ Raised(r) /\ CallFailed(r, "synthesis")
    /\ Len(llmCalls[r]) = 3 /\ Len(httpCalls[r]) = 1
    /\ pc[r] = "done"
    /\ CallFailed(q, "formulator")
    /\ pc[q] = "done"

----------------------------------------------------------------------------
(* C19 *)

\* the turn log of r
Log(r) == St(r).messages

\* what holds of the log in every state
LogShape(r) ==
  /\ Len(Log(r)) >= 1
  /\ Log(r)[1].type = "human" /\ Log(r)[1].content = UserMessage(r)
  /\ pc[r] = "classifier" => Len(Log(r)) = 1
  /\ WorkflowEnded(r) =>
       /\ Log(r)[Len(Log(r))].type = "ai"
       /\ Some(Log(r)[Len(Log(r))].content) = St(r).final_response
       /\ ChatReturned(r) => chatResult[r] = Some(Log(r)[Len(Log(r))].content)

\* C19: the turn log of a chat call is append-only: it starts as the single
\* user entry, every step of the call leaves the log it found as an unchanged
\* prefix of the log it leaves (no entry removed, reordered or rewritten), and
\* after a successful synthesis the last entry is the assistant turn whose
\* content equals the final response that chat returns.
C19_LogAppendOnly ==
  /\ [](\A r \in Requests : Begun(r) => LogShape(r))
  /\ [][\A r \in Requests : Begun(r) => IsPrefix(Log(r), Log(r)')]_vars

\* a call through the lookup has returned with a log of five entries
C19_Witness ==
  \E r \in Requests :
    /\ ChatReturned(r) /\ escaped[r] = None
    /\ visited[r] = ViaLookup
    /\ Len(Log(r)) = 5
    /\ Log(r)[5].type = "ai"
    /\ chatResult[r] = Some(Log(r)[5].content)

----------------------------------------------------------------------------
(* C20 *)

\* r was answered, after an earlier call with the same message that made the
\* same model and HTTP calls and got the same replies
RepeatedSame(r) ==
  /\ pc[r] = "done"
  /\ IsSome(previous[r])
  /\ Get(previous[r]).llmCalls = llmCalls[r]
  /\ Get(previous[r]).httpCalls = httpCalls[r]

\* C20: with the classifier reply, the formulator reply, the answer of the
\* lookup API and the synthesis reply all fixed, a chat call repeated with the
\* same message on the same agent is answered with the same usedWolfram flag
\* as before, whatever other calls the agent served in between.
C20_RepeatedCallSameFlag ==
  \A r \in Requests :
    RepeatedSame(r) => Get(response[r]).usedWolfram = Get(previous[r]).usedWolfram

----------------------------------------------------------------------------
(* C22 *)

\* a step leaves user_query of r as it was, and needs_wolfram too unless the
\* step is the classifier stage of r
FrameKept(r) ==
  (Begun(r) /\ Begun(r)') =>
    /\ St(r)'.user_query = St(r).user_query
    /\ pc[r] # "classifier" => St(r)'.needs_wolfram = St(r).needs_wolfram

\* C22: the user query stored in the AgentState is never changed by any
\* stage, and needs_wolfram is written only by the classifier stage: the
\* lookup stage and the synthesis stage leave user_query and needs_wolfram
\* unchanged, on their success and on their failure paths.
C22_QueryAndDecisionKept ==
  /\ [](\A r \in Requests : Begun(r) => St(r).user_query = UserMessage(r))
  /\ [][\A r \in Requests : FrameKept(r)]_vars

\* a call through a succeeded lookup has ended with the decision and the
\* query it had after the classifier, and so has one whose formulator failed
C22_Witness ==
  \E r, q \in Requests :
    /\ WorkflowEnded(r) /\ LookupSucceeded(r)
    /\ St(r).needs_wolfram /\ St(r).user_query = UserMessage(r)
    /\ WorkflowEnded(q) /\ CallFailed(q, "formulator")
    /\ St(q).needs_wolfram /\ St(q).user_query = UserMessage(q)

----------------------------------------------------------------------------
(* C21 *)

\* how far a call has come
Rank(p) ==
  CASE p = "idle" -> 0
    [] p = "classifier" -> 1
    [] p = "wolfram_search" -> 2
    [] p = "generate_response" -> 3
    [] p = "END" -> 4
    [] p = "returned" -> 5
    [] p = "done" -> 6

\* the workflow of r is left, at its END node or by an exception chat caught
Left(r) == pc[r] \in { "END", "returned", "done" }

\* C21: provided every model call and the lookup HTTP call returns or fails
\* in the end, every chat call that has begun reaches the end of the workflow
\* and returns to its caller, which answers; the workflow has no cycle: every
\* step of a call brings it further and none brings it back.
C21_EveryCallReturns ==
  /\ \A r \in Requests : Begun(r) ~> Left(r)
  /\ \A r \in Requests :
       Begun(r) ~> (pc[r] = "done" /\ IsSome(chatResult[r]) /\ IsSome(response[r]))
  /\ [][\A r \in Requests : pc[r]' # pc[r] => Rank(pc[r]') > Rank(pc[r])]_vars

\* a call whose synthesis replied and a call whose synthesis failed have both
\* been answered
C21_Witness ==
  \E r, q \in Requests :
    /\ pc[r] = "done" /\ WorkflowEnded(r) /\ IsSome(response[r])
    /\ pc[q] = "done" /\ CallFailed(q, "synthesis") /\ IsSome(response[q])

====
